---- MODULE Spec2Model ----
(***************************************************************************)
(* Model of gwargs (src/gwargs.go): Parse tokenizes os.Args[1:] into a     *)
(* flag map (mapArgSlice) and binds every field of the destination struct  *)
(* from it, with range checks for the numeric kinds.                       *)
(*                                                                         *)
(* Strings are TLA+ strings (ASCII).  A 64-bit magnitude is a sequence of  *)
(* four 16-bit limbs, least significant first, so that every width of the  *)
(* source (8, 16, 32, 64 bits) is computed exactly.  The kinds int and     *)
(* uint are 64 bits wide, as the source treats them (a 64-bit build).      *)
(* Struct fields are exported, hence settable through reflection.          *)
(***************************************************************************)
EXTENDS Integers, Sequences, FiniteSets, TLC

VARIABLES
  osArgs,  \* os.Args[1:]
  fields,  \* the struct s points to: its fields in declaration order
  ret,     \* the last call of Parse: the kind of s passed, the outcome, the failing field
  pre,     \* fields as they were when the last call began
  saved    \* the record last written back as tokens, if any

vars == <<osArgs, fields, ret, pre, saved>>

-----------------------------------------------------------------------------
(* package strings *)

Ch(s, i) == SubSeq(s, i, i)

HasPrefix(s, p) == Len(s) >= Len(p) /\ SubSeq(s, 1, Len(p)) = p

TrimPrefix(s, p) == IF HasPrefix(s, p) THEN SubSeq(s, Len(p) + 1, Len(s)) ELSE s

\* index of the first occurrence of the one-character string c in s, 0 if none
RECURSIVE IndexFrom(_, _, _)
IndexFrom(s, c, i) ==
  IF i > Len(s) THEN 0
  ELSE IF Ch(s, i) = c THEN i
  ELSE IndexFrom(s, c, i + 1)

Index(s, c) == IndexFrom(s, c, 1)

Contains(s, c) == Index(s, c) # 0

\* SplitN2 with the cut one character early: the separator stays in the value
SplitN2KeepSep(s, c) ==
  LET k == Index(s, c) IN <<SubSeq(s, 1, k - 1), SubSeq(s, k, Len(s))>>

\* strings.SplitN(s, "=", 2) on a string that contains "=": cut at the first one
SplitN2(s, c) ==
  LET k == Index(s, c) IN <<SubSeq(s, 1, k - 1), SubSeq(s, k + 1, Len(s))>>

\* strings.Split(s, ""): the characters of s, none for the empty string
Split(s) == [i \in 1..Len(s) |-> Ch(s, i)]

\* the lower-case form of an ASCII letter, any other character unchanged
ToLower(c) ==
  LET k == IndexFrom("ABCDEFGHIJKLMNOPQRSTUVWXYZ", c, 1) IN
  IF k = 0 THEN c ELSE Ch("abcdefghijklmnopqrstuvwxyz", k)

EqualFold(s, t) ==
  /\ Len(s) = Len(t)
  /\ \A i \in 1..Len(s) : ToLower(Ch(s, i)) = ToLower(Ch(t, i))

-----------------------------------------------------------------------------
(* mapArgSlice *)

EmptyMap == [k \in {} |-> ""]

\* Put that keeps the value of a key already present
PutIfAbsent(res, k, v) == [x \in DOMAIN res \cup {k} |-> IF x \in DOMAIN res THEN res[x] ELSE v]

\* res[k] = v
Put(res, k, v) == [x \in DOMAIN res \cup {k} |-> IF x = k THEN v ELSE res[x]]

\* args[name] on a Go map: the zero value "" when the key is absent
Lookup(res, name) == IF name \in DOMAIN res THEN res[name] ELSE ""

\* One assignment res[k] = v made while the token at position i is processed.
\* emits lists the assignments in the order they are made.
Emit(st, i, k, v) ==
  [st EXCEPT !.res = Put(@, k, v),
             !.emits = Append(@, [at |-> i, key |-> k, val |-> v])]

RECURSIVE EmitChars(_, _, _, _)
EmitChars(st, i, cs, j) ==
  IF j > Len(cs) THEN st
  ELSE EmitChars(Emit(st, i, cs[j], ""), i, cs, j + 1)

\* consumesNext that stops only at another long flag
consumesNextUnlessLong(next) == ~HasPrefix(next, "--")

\* whether the lookahead token is taken as the value of a long flag
consumesNext(next) == ~HasPrefix(next, "-")

\* The loop of mapArgSlice from position i on.  visited lists the positions
\* the loop body ran at; fault is the index-out-of-range panic of args[i+1].
RECURSIVE scan(_, _, _)
scan(args, i, st) ==
  IF i > Len(args) THEN st
  ELSE
    LET arg == args[i]
        st1 == [st EXCEPT !.visited = Append(@, i)]
    IN
    IF HasPrefix(arg, "--") THEN
      LET a == TrimPrefix(arg, "--") IN
      IF Contains(a, "=") THEN
        LET parts == SplitN2(a, "=") IN
        scan(args, i + 1, Emit(st1, i, parts[1], parts[2]))
      ELSE IF i + 1 > Len(args) THEN
        [st1 EXCEPT !.fault = TRUE]
      ELSE IF ~consumesNext(args[i + 1]) THEN
        scan(args, i + 1, Emit(st1, i, a, ""))
      ELSE
        scan(args, i + 2, Emit(st1, i, a, args[i + 1]))
    ELSE IF HasPrefix(arg, "-") THEN
      scan(args, i + 1, EmitChars(st1, i, Split(SubSeq(arg, 2, Len(arg))), 1))
    ELSE
      scan(args, i + 1, Emit(st1, i, arg, ""))

mapArgSlice(args) ==
  scan(args, 1, [res |-> EmptyMap, fault |-> FALSE, visited |-> <<>>, emits |-> <<>>])

-----------------------------------------------------------------------------
(* 64-bit integers: four limbs of 16 bits, least significant first *)

Base == 2^16

ZeroMag == <<0, 0, 0, 0>>

\* m * 10 + d; over is the carry out of bit 64
MulAdd10(m, d) ==
  LET t1 == m[1] * 10 + d
      t2 == m[2] * 10 + (t1 \div Base)
      t3 == m[3] * 10 + (t2 \div Base)
      t4 == m[4] * 10 + (t3 \div Base)
  IN [mag |-> <<t1 % Base, t2 % Base, t3 % Base, t4 % Base>>,
      over |-> (t4 \div Base) # 0]

\* quotient and remainder of m by 10
DivMod10(m) ==
  LET c4 == m[4]
      c3 == (c4 % 10) * Base + m[3]
      c2 == (c3 % 10) * Base + m[2]
      c1 == (c2 % 10) * Base + m[1]
  IN [quo |-> <<c1 \div 10, c2 \div 10, c3 \div 10, c4 \div 10>>, rem |-> c1 % 10]

\* a < b on magnitudes
LtMag(a, b) ==
  \E k \in 1..4 : a[k] < b[k] /\ \A j \in (k + 1)..4 : a[j] = b[j]

\* x < y on signed values [neg, mag]; zero is never negative
LtInt(x, y) ==
  IF x.neg /\ ~y.neg THEN TRUE
  ELSE IF ~x.neg /\ y.neg THEN FALSE
  ELSE IF x.neg THEN LtMag(y.mag, x.mag)
  ELSE LtMag(x.mag, y.mag)

GtInt(x, y) == LtInt(y, x)

MkInt(neg, mag) == [neg |-> neg /\ mag # ZeroMag, mag |-> mag]

\* a value of small magnitude, for initial field values
SmallInt(n) == MkInt(n < 0, <<IF n < 0 THEN -n ELSE n, 0, 0, 0>>)

\* m + 1 modulo 2^64
AddOne(m) ==
  LET t1 == m[1] + 1
      t2 == m[2] + (t1 \div Base)
      t3 == m[3] + (t2 \div Base)
      t4 == m[4] + (t3 \div Base)
  IN <<t1 % Base, t2 % Base, t3 % Base, t4 % Base>>

\* 2^64 - m modulo 2^64
NegMag(m) == AddOne(<<Base - 1 - m[1], Base - 1 - m[2], Base - 1 - m[3], Base - 1 - m[4]>>)

\* the low w bits
Mask(m, w) ==
  CASE w = 8 -> <<m[1] % 256, 0, 0, 0>>
    [] w = 16 -> <<m[1], 0, 0, 0>>
    [] w = 32 -> <<m[1], m[2], 0, 0>>
    [] OTHER -> m

\* bit w-1 of a magnitude below 2^w
TopBit(m, w) ==
  CASE w = 8 -> m[1] >= 128
    [] w = 16 -> m[1] >= 32768
    [] w = 32 -> m[2] >= 32768
    [] OTHER -> m[4] >= 32768

\* the conversion intW(n) of an int64 n: the low w bits, read as two's complement
TruncInt(n, w) ==
  LET bits == Mask(IF n.neg THEN NegMag(n.mag) ELSE n.mag, w) IN
  IF TopBit(bits, w) THEN MkInt(TRUE, Mask(NegMag(bits), w)) ELSE MkInt(FALSE, bits)

\* the conversion uintW(n) of a uint64 n
TruncUint(n, w) == MkInt(FALSE, Mask(n.mag, w))

-----------------------------------------------------------------------------
(* package strconv: integers *)

DigitOf(c) ==
  CASE c = "0" -> 0 [] c = "1" -> 1 [] c = "2" -> 2 [] c = "3" -> 3 [] c = "4" -> 4
    [] c = "5" -> 5 [] c = "6" -> 6 [] c = "7" -> 7 [] c = "8" -> 8 [] c = "9" -> 9
    [] OTHER -> -1

DigitCh(d) == Ch("0123456789", d + 1)

MaxUint64Mag == <<65535, 65535, 65535, 65535>>

\* the digit loop of ParseUint: stops at the first bad character or overflow
RECURSIVE parseDigits(_, _, _)
parseDigits(s, i, m) ==
  IF i > Len(s) THEN [err |-> "nil", mag |-> m]
  ELSE
    LET d == DigitOf(Ch(s, i))
        n == MulAdd10(m, d)
    IN IF d < 0 THEN [err |-> "syntax", mag |-> ZeroMag]
       ELSE IF n.over THEN [err |-> "range", mag |-> MaxUint64Mag]
       ELSE parseDigits(s, i + 1, n.mag)

\* strconv.ParseUint(s, 10, 64)
ParseUint(s) ==
  IF s = "" THEN [err |-> "syntax", val |-> MkInt(FALSE, ZeroMag)]
  ELSE LET p == parseDigits(s, 1, ZeroMag) IN [err |-> p.err, val |-> MkInt(FALSE, p.mag)]

Cutoff63 == <<0, 0, 0, 32768>>

\* strconv.ParseInt(s, 10, 64)
ParseInt(s) ==
  IF s = "" THEN [err |-> "syntax", val |-> MkInt(FALSE, ZeroMag)]
  ELSE
    LET neg == Ch(s, 1) = "-"
        body == IF Ch(s, 1) \in {"+", "-"} THEN SubSeq(s, 2, Len(s)) ELSE s
        un == ParseUint(body)
    IN
    IF un.err = "syntax" THEN [err |-> "syntax", val |-> MkInt(FALSE, ZeroMag)]
    ELSE IF ~neg /\ ~LtMag(un.val.mag, Cutoff63) THEN
      [err |-> "range", val |-> MkInt(FALSE, <<65535, 65535, 65535, 32767>>)]
    ELSE IF neg /\ LtMag(Cutoff63, un.val.mag) THEN
      [err |-> "range", val |-> MkInt(TRUE, Cutoff63)]
    ELSE [err |-> "nil", val |-> MkInt(neg, un.val.mag)]

RECURSIVE formatMag(_)
formatMag(m) ==
  IF m = ZeroMag THEN ""
  ELSE LET q == DivMod10(m) IN formatMag(q.quo) \o DigitCh(q.rem)

\* strconv.FormatInt(n, 10) and strconv.FormatUint(n, 10)
FormatInt(n) ==
  IF n.mag = ZeroMag THEN "0"
  ELSE (IF n.neg THEN "-" ELSE "") \o formatMag(n.mag)

-----------------------------------------------------------------------------
(* checkIntOverflow, checkUIntOverflow *)

IntKinds == {"int", "int8", "int16", "int32", "int64"}
UintKinds == {"uint", "uint8", "uint16", "uint32", "uint64"}
FloatKinds == {"float32", "float64"}

\* bits of a numeric kind
Width(k) ==
  CASE k \in {"int8", "uint8"} -> 8
    [] k \in {"int16", "uint16"} -> 16
    [] k \in {"int32", "uint32", "float32"} -> 32
    [] OTHER -> 64

MaxInt8 == MkInt(FALSE, <<127, 0, 0, 0>>)
MinInt8 == MkInt(TRUE, <<128, 0, 0, 0>>)
MaxInt16 == MkInt(FALSE, <<32767, 0, 0, 0>>)
MinInt16 == MkInt(TRUE, <<32768, 0, 0, 0>>)
MaxInt32 == MkInt(FALSE, <<65535, 32767, 0, 0>>)
MinInt32 == MkInt(TRUE, <<0, 32768, 0, 0>>)
MaxInt64 == MkInt(FALSE, <<65535, 65535, 65535, 32767>>)
MinInt64 == MkInt(TRUE, <<0, 0, 0, 32768>>)
MaxUint8 == MkInt(FALSE, <<255, 0, 0, 0>>)
MaxUint16 == MkInt(FALSE, <<65535, 0, 0, 0>>)
MaxUint32 == MkInt(FALSE, <<65535, 65535, 0, 0>>)
MaxUint64 == MkInt(FALSE, MaxUint64Mag)
ZeroInt == MkInt(FALSE, ZeroMag)

\* checkIntOverflow with the bounds of int32 in the case of int16
checkIntOverflowWide(n, t) ==
  CASE t = "int8" -> ~(GtInt(n, MaxInt8) \/ LtInt(n, MinInt8))
    [] t = "int16" -> ~(GtInt(n, MaxInt32) \/ LtInt(n, MinInt32))
    [] t = "int32" -> ~(GtInt(n, MaxInt32) \/ LtInt(n, MinInt32))
    [] t \in {"int", "int64"} -> ~(GtInt(n, MaxInt64) \/ LtInt(n, MinInt64))
    [] OTHER -> FALSE

checkIntOverflow(n, t) ==
  CASE t = "int8" -> ~(GtInt(n, MaxInt8) \/ LtInt(n, MinInt8))
    [] t = "int16" -> ~(GtInt(n, MaxInt16) \/ LtInt(n, MinInt16))
    [] t = "int32" -> ~(GtInt(n, MaxInt32) \/ LtInt(n, MinInt32))
    [] t \in {"int", "int64"} -> ~(GtInt(n, MaxInt64) \/ LtInt(n, MinInt64))
    [] OTHER -> FALSE

checkUIntOverflow(n, k) ==
  CASE k = "uint8" -> ~(GtInt(n, MaxUint8) \/ LtInt(n, ZeroInt))
    [] k = "uint16" -> ~(GtInt(n, MaxUint16) \/ LtInt(n, ZeroInt))
    [] k = "uint32" -> ~(GtInt(n, MaxUint32) \/ LtInt(n, ZeroInt))
    [] k \in {"uint", "uint64"} -> ~(GtInt(n, MaxUint64) \/ LtInt(n, ZeroInt))
    [] OTHER -> FALSE

-----------------------------------------------------------------------------
(* package strconv: floats *)

(* A float64 is [cls, neg, mant, exp]: NaN, an infinity, or the decimal    *)
(* mant * 10^exp with mant free of trailing zeros.  Literals are decimal   *)
(* with at most nine significant digits; the limits of math are given to   *)
(* nine digits, which orders them exactly against every literal of up to   *)
(* eight digits.  Rounding to the nearest binary value is modelled only    *)
(* where it changes an order: at the bottom of the subnormal range.        *)

RECURSIVE NDigits(_)
NDigits(m) == IF m < 10 THEN 1 ELSE 1 + NDigits(m \div 10)

RECURSIVE StripZeros(_, _)
StripZeros(m, e) ==
  IF m = 0 THEN [mant |-> 0, exp |-> 0]
  ELSE IF m % 10 = 0 THEN StripZeros(m \div 10, e + 1)
  ELSE [mant |-> m, exp |-> e]

MkFloat(neg, m, e) ==
  LET z == StripZeros(m, e) IN [cls |-> "fin", neg |-> neg, mant |-> z.mant, exp |-> z.exp]

Inf(neg) == [cls |-> "inf", neg |-> neg, mant |-> 0, exp |-> 0]
NaN == [cls |-> "nan", neg |-> FALSE, mant |-> 0, exp |-> 0]

\* -1, 0 or 1
Sign(x) == IF x.cls = "fin" /\ x.mant = 0 THEN 0 ELSE IF x.neg THEN -1 ELSE 1

\* |a| < |b| for nonzero a, b that are not NaN
LtMagF(a, b) ==
  IF a.cls = "inf" THEN FALSE
  ELSE IF b.cls = "inf" THEN TRUE
  ELSE
    LET sa == a.exp + NDigits(a.mant)
        sb == b.exp + NDigits(b.mant)
    IN IF sa # sb THEN sa < sb
       ELSE a.mant * 10^(9 - NDigits(a.mant)) < b.mant * 10^(9 - NDigits(b.mant))

\* x < y on float64: false whenever one side is NaN
LtF(x, y) ==
  IF x.cls = "nan" \/ y.cls = "nan" THEN FALSE
  ELSE IF Sign(x) # Sign(y) THEN Sign(x) < Sign(y)
  ELSE IF Sign(x) = 0 THEN FALSE
  ELSE IF Sign(x) = 1 THEN LtMagF(x, y)
  ELSE LtMagF(y, x)

GtF(x, y) == LtF(y, x)

MaxFloat32 == MkFloat(FALSE, 340282347, 30)
SmallestNonzeroFloat32 == MkFloat(FALSE, 140129846, -53)
MaxFloat64 == MkFloat(FALSE, 179769313, 300)
SmallestNonzeroFloat64 == MkFloat(FALSE, 494065646, -332)
\* half of the smallest subnormal: what lies below rounds to zero
HalfSmallest64 == MkFloat(FALSE, 247032823, -332)

\* the digits and the point of a mantissa, from position i on; the digits
\* after the ninth significant one are dropped and only counted (strconv
\* does so after the nineteenth)
RECURSIVE readMant(_, _, _)
readMant(s, i, st) ==
  IF i > Len(s) THEN [st EXCEPT !.pos = i]
  ELSE IF Ch(s, i) = "." /\ ~st.dot THEN readMant(s, i + 1, [st EXCEPT !.dot = TRUE])
  ELSE IF DigitOf(Ch(s, i)) >= 0 THEN
    IF st.mant >= 10^8
    THEN readMant(s, i + 1, [st EXCEPT !.frac = IF st.dot THEN @ ELSE @ - 1])
    ELSE readMant(s, i + 1, [st EXCEPT !.mant = @ * 10 + DigitOf(Ch(s, i)),
                                       !.frac = IF st.dot THEN @ + 1 ELSE @,
                                       !.dig = TRUE])
  ELSE [st EXCEPT !.pos = i]

\* the digits of an exponent, from position i on, to the end of s
RECURSIVE readExp(_, _, _)
readExp(s, i, st) ==
  IF i > Len(s) THEN st
  ELSE IF DigitOf(Ch(s, i)) < 0 THEN [st EXCEPT !.ok = FALSE]
  ELSE readExp(s, i + 1, [st EXCEPT !.e = @ * 10 + DigitOf(Ch(s, i)), !.dig = TRUE])

\* the value of a well-formed decimal, rounded into float64
roundFloat(neg, m, e) ==
  LET v == MkFloat(neg, m, e) IN
  IF v.mant = 0 THEN [err |-> "nil", val |-> v]
  ELSE IF LtMagF(MaxFloat64, v) THEN [err |-> "range", val |-> Inf(neg)]
  ELSE IF LtMagF(v, HalfSmallest64) THEN [err |-> "nil", val |-> MkFloat(neg, 0, 0)]
  ELSE IF LtMagF(v, SmallestNonzeroFloat64) THEN
    [err |-> "nil", val |-> [SmallestNonzeroFloat64 EXCEPT !.neg = neg]]
  ELSE [err |-> "nil", val |-> v]

\* strconv.ParseFloat(s, 64) on decimal literals, infinities and NaN
ParseFloat(s) ==
  LET signed == s # "" /\ Ch(s, 1) \in {"+", "-"}
      neg == s # "" /\ Ch(s, 1) = "-"
      body == IF signed THEN SubSeq(s, 2, Len(s)) ELSE s
      m == readMant(body, 1, [mant |-> 0, frac |-> 0, dot |-> FALSE, dig |-> FALSE, pos |-> 0])
      hasExp == m.pos <= Len(body) /\ Ch(body, m.pos) \in {"e", "E"}
      eneg == hasExp /\ m.pos + 1 <= Len(body) /\ Ch(body, m.pos + 1) = "-"
      efrom == IF hasExp /\ m.pos + 1 <= Len(body) /\ Ch(body, m.pos + 1) \in {"+", "-"}
               THEN m.pos + 2 ELSE m.pos + 1
      x == readExp(body, efrom, [e |-> 0, dig |-> FALSE, ok |-> TRUE])
      bad == [err |-> "syntax", val |-> MkFloat(FALSE, 0, 0)]
  IN
  IF EqualFold(body, "inf") \/ EqualFold(body, "infinity") THEN [err |-> "nil", val |-> Inf(neg)]
  ELSE IF EqualFold(s, "nan") THEN [err |-> "nil", val |-> NaN]
  ELSE IF ~m.dig THEN bad
  ELSE IF hasExp THEN
    IF x.ok /\ x.dig
    THEN roundFloat(neg, m.mant, (IF eneg THEN -x.e ELSE x.e) - m.frac)
    ELSE bad
  ELSE IF m.pos <= Len(body) THEN bad
  ELSE roundFloat(neg, m.mant, -m.frac)

-----------------------------------------------------------------------------
(* checkFloatOverflow *)

checkFloatOverflow(n, k) ==
  CASE k = "float32" -> ~(GtF(n, MaxFloat32) \/ LtF(n, SmallestNonzeroFloat32))
    [] k = "float64" -> ~(GtF(n, MaxFloat64) \/ LtF(n, SmallestNonzeroFloat64))
    [] OTHER -> FALSE

-----------------------------------------------------------------------------
(* Parse: the binding of one field *)

\* What the loop of Parse does for a field f, one operator per case of the
\* switch: the error it returns, or the value it stores.
bindString(f, res) == [err |-> "nil", val |-> Lookup(res, f.name)]

\* bindBool without the test for the flag's presence
bindBoolAlways(f, res) == [err |-> "nil", val |-> EqualFold(Lookup(res, f.name), "true")]

bindBool(f, res) ==
  IF f.name \in DOMAIN res
  THEN [err |-> "nil", val |-> EqualFold(res[f.name], "true")]
  ELSE [err |-> "nil", val |-> f.val]

bindInt(f, res) ==
  LET p == ParseInt(Lookup(res, f.name)) IN
  IF p.err # "nil" THEN [err |-> p.err, val |-> f.val]
  ELSE IF ~checkIntOverflow(p.val, f.kind) THEN [err |-> "overflow", val |-> f.val]
  ELSE [err |-> "nil", val |-> TruncInt(p.val, Width(f.kind))]

bindUint(f, res) ==
  LET p == ParseUint(Lookup(res, f.name)) IN
  IF Contains(Lookup(res, f.name), "-") THEN [err |-> "underflow", val |-> f.val]
  ELSE IF p.err # "nil" THEN [err |-> p.err, val |-> f.val]
  ELSE IF ~checkUIntOverflow(p.val, f.kind) THEN [err |-> "overflow", val |-> f.val]
  ELSE [err |-> "nil", val |-> TruncUint(p.val, Width(f.kind))]

\* SetFloat stores the value; the rounding of a float32 field to single
\* precision is left out
bindFloat(f, res) ==
  LET p == ParseFloat(Lookup(res, f.name)) IN
  IF p.err # "nil" THEN [err |-> p.err, val |-> f.val]
  ELSE IF ~checkFloatOverflow(p.val, f.kind) THEN [err |-> "overflow", val |-> f.val]
  ELSE [err |-> "nil", val |-> p.val]

bindField(f, res) ==
  CASE f.kind = "string" -> bindString(f, res)
    [] f.kind = "bool" -> bindBool(f, res)
    [] f.kind \in IntKinds -> bindInt(f, res)
    [] f.kind \in UintKinds -> bindUint(f, res)
    [] f.kind \in FloatKinds -> bindFloat(f, res)
    [] OTHER -> [err |-> "unsupported", val |-> f.val]

\* bindFrom that records the first error and goes on with the next field
RECURSIVE bindFromKeepGoing(_, _, _)
bindFromKeepGoing(fs, res, i) ==
  IF i > Len(fs) THEN [fields |-> fs, err |-> "nil", at |-> 0]
  ELSE
    LET b == bindField(fs[i], res)
        rest == bindFromKeepGoing([fs EXCEPT ![i].val = b.val], res, i + 1)
    IN IF b.err # "nil" THEN [fields |-> rest.fields, err |-> b.err, at |-> i] ELSE rest

\* the field loop from field i on: stops at the first error, at says where
RECURSIVE bindFrom(_, _, _)
bindFrom(fs, res, i) ==
  IF i > Len(fs) THEN [fields |-> fs, err |-> "nil", at |-> 0]
  ELSE
    LET b == bindField(fs[i], res) IN
    IF b.err # "nil" THEN [fields |-> fs, err |-> b.err, at |-> i]
    ELSE bindFrom([fs EXCEPT ![i].val = b.val], res, i + 1)

-----------------------------------------------------------------------------
(* Parse *)

Dests == {"nonPointer", "nilPointer", "pointerToNonStruct", "pointerToStruct"}

\* the three checks on s
checkDest(d) ==
  CASE d = "nonPointer" -> "expected pointer"
    [] d = "nilPointer" -> "s cannot be nil"
    [] d = "pointerToNonStruct" -> "s must be a pointer to a struct"
    [] OTHER -> "nil"

InvalidDestErrs == {"expected pointer", "s cannot be nil", "s must be a pointer to a struct"}

\* parse with the arguments tokenized before s is checked
parseTokenizeFirst(d, args, fs) ==
  LET m == mapArgSlice(args) IN
  IF m.fault THEN [fields |-> fs, err |-> "panic", at |-> 0]
  ELSE IF checkDest(d) # "nil" THEN [fields |-> fs, err |-> checkDest(d), at |-> 0]
  ELSE bindFrom(fs, m.res, 1)

\* Parse(s, config) with os.Args[1:] = args and, when s points to a struct,
\* that struct's fields fs: the struct afterwards and the outcome.  The
\* outcome "panic" is the run-time fault of mapArgSlice.
parse(d, args, fs) ==
  LET m == mapArgSlice(args) IN
  IF checkDest(d) # "nil" THEN [fields |-> fs, err |-> checkDest(d), at |-> 0]
  ELSE IF m.fault THEN [fields |-> fs, err |-> "panic", at |-> 0]
  ELSE bindFrom(fs, m.res, 1)

NoCall == [dest |-> "none", err |-> "none", at |-> 0]
NoRecord == <<>>

Parse(d) ==
  /\ LET r == parse(d, osArgs, fields) IN
       /\ ret' = [dest |-> d, err |-> r.err, at |-> r.at]
       /\ fields' = r.fields
  /\ pre' = fields
  /\ UNCHANGED <<osArgs, saved>>

-----------------------------------------------------------------------------
(* The caller: a record bound without error is written back as one         *)
(* --name=value token per field and parsed again into a fresh record.      *)

FormatBool(b) == IF b THEN "true" ELSE "false"

formatValue(f) ==
  CASE f.kind = "string" -> f.val
    [] f.kind = "bool" -> FormatBool(f.val)
    [] OTHER -> FormatInt(f.val)

Serialize(fs) == [i \in 1..Len(fs) |-> "--" \o fs[i].name \o "=" \o formatValue(fs[i])]

\* the zero value of a kind
ZeroValue(k) ==
  CASE k = "string" -> ""
    [] k = "bool" -> FALSE
    [] k \in IntKinds \cup UintKinds -> ZeroInt
    [] k \in FloatKinds -> MkFloat(FALSE, 0, 0)
    [] OTHER -> "nil"

ZeroRecord(fs) == [i \in 1..Len(fs) |-> [fs[i] EXCEPT !.val = ZeroValue(fs[i].kind)]]

Reserialize ==
  /\ ret.err = "nil"
  /\ \A i \in 1..Len(fields) : fields[i].kind \in {"string", "bool"} \cup IntKinds \cup UintKinds
  /\ osArgs' = Serialize(fields)
  /\ saved' = fields
  /\ fields' = ZeroRecord(fields)
  /\ pre' = ZeroRecord(fields)
  /\ ret' = NoCall

-----------------------------------------------------------------------------
(* Initial states *)

MaxArgs == 3

Tokens == {"--X=1", "--X=2", "--B", "-5", "True", "--S=a=b"}

\* tokens around a short-flag cluster
ClusterTokens == {"-ABC", "--B", "True"}

\* the token streams over T of length up to n
RECURSIVE Streams(_, _)
Streams(T, n) ==
  IF n = 0 THEN {<<>>}
  ELSE Streams(T, n - 1) \cup
       {Append(a, t) : a \in {b \in Streams(T, n - 1) : Len(b) = n - 1}, t \in T}

\* a value of a kind other than the zero value
PresetValue(k) ==
  CASE k = "string" -> "old"
    [] k = "bool" -> TRUE
    [] k \in IntKinds \cup UintKinds -> SmallInt(7)
    [] k \in FloatKinds -> MkFloat(FALSE, 15, -1)
    [] OTHER -> "nil"

Field(n, k, preset) ==
  [name |-> n, kind |-> k, val |-> IF preset THEN PresetValue(k) ELSE ZeroValue(k)]

\* struct declarations: field names and kinds in declaration order
StructTypes ==
  { <<<<"X", "int8">>, <<"S", "string">>, <<"B", "bool">>>>,
    <<<<"S", "string">>, <<"X", "uint16">>, <<"B", "bool">>>>,
    <<<<"S", "string">>, <<"U", "slice">>, <<"B", "bool">>>>,
    <<<<"X", "string">>, <<"B", "bool">>>> }

\* a struct of three bool fields, for the short flags
FlagsType == <<<<"A", "bool">>, <<"B", "bool">>, <<"C", "bool">>>>

Record(t, preset) == [i \in 1..Len(t) |-> Field(t[i][1], t[i][2], preset)]

IntLits ==
  { "", "0", "-0", "+5", "007", "-1", "12a", "1.5",
    "127", "128", "-128", "-129", "255", "256",
    "32767", "32768", "-32768", "-32769", "65535", "65536",
    "2147483647", "2147483648", "-2147483648", "-2147483649",
    "4294967295", "4294967296",
    "9223372036854775807", "9223372036854775808",
    "-9223372036854775808", "-9223372036854775809",
    "18446744073709551615", "18446744073709551616" }

FloatLits ==
  { "-1.5", "3.14", "3.4e38", "3.5e38", "-3.4e38", "1e-46", "-1e-46", "1.5e-45",
    "1.7e308", "-1.7e308", "1.8e308", "1e-400", "inf", "-inf", "nan", "1e" }

NumKinds == IntKinds \cup UintKinds \cup FloatKinds

InitGeneral ==
  /\ osArgs \in Streams(Tokens, MaxArgs)
  /\ \E t \in StructTypes, preset \in BOOLEAN : fields = Record(t, preset)

InitCluster ==
  /\ osArgs \in Streams(ClusterTokens, MaxArgs)
  /\ \E preset \in BOOLEAN : fields = Record(FlagsType, preset)

InitNumeric ==
  /\ \E lit \in IntLits \cup FloatLits : osArgs = <<"--N=" \o lit>>
  /\ \E k \in NumKinds, preset \in BOOLEAN :
       fields = Record(<<<<"N", k>>, <<"S", "string">>>>, preset)

Init ==
  /\ InitGeneral \/ InitCluster \/ InitNumeric
  /\ ret = NoCall
  /\ pre = fields
  /\ saved = NoRecord

Next ==
  \/ \E d \in Dests : Parse(d)
  \/ Reserialize

Spec == Init /\ [][Next]_vars

-----------------------------------------------------------------------------
(* Properties.  After a call of Parse, osArgs holds the arguments it read, *)
(* pre the fields before the call, fields the fields after it and ret its  *)
(* outcome.                                                                *)

\* the last call had a valid destination
Bound == ret.dest = "pointerToStruct"

\* the tokenizer's run on the arguments of the last call
Tok == mapArgSlice(osArgs)

\* the field loop of the last call got to field i
Reached(i) == Bound /\ ret.err # "panic" /\ (ret.at = 0 \/ i <= ret.at)

Raw(i) == Lookup(Tok.res, fields[i].name)

\* the flag of field i is absent from the flag map
Absent(i) == fields[i].name \notin DOMAIN Tok.res

IsLongNoEq(t) == HasPrefix(t, "--") /\ ~Contains(t, "=")

\* C1: when the last token is a long flag without "=", the tokenizer does not
\* fault: the flag is mapped to "", so a bool field of that name becomes false,
\* a string field "" and a numeric field fails with a malformed-literal error.
C1_TrailingLongFlagIsValueless ==
  (Bound /\ Len(osArgs) > 0 /\ IsLongNoEq(osArgs[Len(osArgs)])) =>
    /\ ret.err # "panic"
    /\ \A i \in 1..Len(fields) :
         (Reached(i) /\ fields[i].name = TrimPrefix(osArgs[Len(osArgs)], "--")) =>
           /\ fields[i].kind = "bool" => fields[i].val = FALSE
           /\ fields[i].kind = "string" => fields[i].val = ""
           /\ fields[i].kind \in NumKinds => ret.at = i /\ ret.err = "syntax"

\* C2: parsing the cluster -ABC into a record of bool fields A, B, C that are
\* all false succeeds and leaves A, B and C true.
C2_ClusterSetsBoolsTrue ==
  (/\ Bound
   /\ osArgs = <<"-ABC">>
   /\ Len(fields) = 3
   /\ \A i \in 1..3 : fields[i].kind = "bool" /\ fields[i].name = Ch("ABC", i) /\ pre[i].val = FALSE)
  => (ret.err = "nil" /\ \A i \in 1..3 : fields[i].val = TRUE)

\* C3 as stated: a field whose flag is absent from the flag map is bound as if
\* the flag were present with the value "": a bool field is false afterwards
\* whatever it held, a string field is "", a numeric field fails to parse.
C3_AbsentFlagBindsEmpty ==
  \A i \in 1..Len(fields) :
    (Reached(i) /\ Absent(i)) =>
      /\ fields[i].kind = "bool" => fields[i].val = FALSE
      /\ fields[i].kind = "string" => fields[i].val = ""
      /\ fields[i].kind \in NumKinds => ret.at = i /\ ret.err = "syntax"

\* C3 amended: a string or numeric field whose flag is absent is bound as if
\* the flag were present with the value "" (a string field is "", a numeric
\* field fails to parse); a bool field whose flag is absent is not written and
\* holds what it held before the call.
C3_AbsentFlagLeavesBool ==
  \A i \in 1..Len(fields) :
    (Reached(i) /\ Absent(i)) =>
      /\ fields[i].kind = "bool" => fields[i].val = pre[i].val /\ ret.at # i
      /\ fields[i].kind = "string" => fields[i].val = ""
      /\ fields[i].kind \in NumKinds => ret.at = i /\ ret.err = "syntax"

C3_Witness ==
  \E i \in 1..Len(fields) :
    /\ Reached(i) /\ Absent(i)
    /\ fields[i].kind = "bool" /\ pre[i].val = TRUE /\ fields[i].val = TRUE

\* the raw value of field i is a base-10 literal within the 64-bit range
ValidIntLiteral(i) ==
  IF fields[i].kind \in IntKinds THEN ParseInt(Raw(i)).err = "nil"
  ELSE ParseUint(Raw(i)).err = "nil"

LiteralValue(i) ==
  IF fields[i].kind \in IntKinds THEN ParseInt(Raw(i)).val ELSE ParseUint(Raw(i)).val

\* v is a value of the integer kind k: converting it to k's width keeps it
FitsKind(v, k) ==
  IF k \in IntKinds THEN TruncInt(v, Width(k)) = v ELSE TruncUint(v, Width(k)) = v

\* C4: for an integer field of any width whose raw value is a base-10 literal
\* within the 64-bit range: a value outside the field's width makes Parse
\* return an overflow error and leaves the field unwritten; a value within it
\* is assigned exactly.  No integer field ever holds a wrapped value.
C4_IntegerRangeChecked ==
  \A i \in 1..Len(fields) :
    (Reached(i) /\ fields[i].kind \in IntKinds \cup UintKinds /\ ValidIntLiteral(i)) =>
      IF FitsKind(LiteralValue(i), fields[i].kind)
      THEN ret.at # i /\ fields[i].val = LiteralValue(i)
      ELSE ret.at = i /\ ret.err = "overflow" /\ fields[i].val = pre[i].val

C4_Witness ==
  \E i \in 1..Len(fields) :
    /\ Reached(i) /\ fields[i].kind = "int16" /\ Raw(i) = "32768"
    /\ ret.at = i /\ ret.err = "overflow" /\ fields[i].val = SmallInt(7)

\* v lies between the most negative and the most positive finite value of kind k
InFloatRange(v, k) ==
  LET max == IF k = "float32" THEN MaxFloat32 ELSE MaxFloat64 IN
  v.cls = "fin" /\ ~GtF(v, max) /\ ~LtF(v, [max EXCEPT !.neg = TRUE])

\* C5: a float field is assigned the parsed value whenever that value lies
\* within the finite range of the field's width, zero and negative values
\* included, and Parse returns an overflow error only for a value outside it.
C5_FloatRangeChecked ==
  \A i \in 1..Len(fields) :
    (/\ Reached(i) /\ fields[i].kind \in FloatKinds
     /\ ParseFloat(Raw(i)).err = "nil" /\ ParseFloat(Raw(i)).val.cls # "nan") =>
      IF InFloatRange(ParseFloat(Raw(i)).val, fields[i].kind)
      THEN ret.at # i /\ fields[i].val = ParseFloat(Raw(i)).val
      ELSE ret.at = i /\ ret.err = "overflow"

\* C6: Parse stops at the first field that cannot be bound: it returns that
\* field's error, every field before it was bound without error, and the
\* failing field and every field after it hold what they held before the call.
C6_FailFast ==
  (Bound /\ ret.err # "panic") =>
    /\ \A j \in 1..Len(fields) :
         (ret.at = 0 \/ j < ret.at) => bindField(pre[j], Tok.res).err = "nil"
    /\ ret.at = 0 => ret.err = "nil"
    /\ ret.at > 0 =>
         /\ ret.err = bindField(pre[ret.at], Tok.res).err
         /\ ret.err # "nil"
         /\ \A j \in ret.at..Len(fields) : fields[j] = pre[j]

C6_Witness ==
  /\ Bound /\ ret.at = 1 /\ Len(fields) = 3
  /\ fields[2].kind = "string" /\ fields[2].val = "old" /\ "S" \in DOMAIN Tok.res
  /\ fields[3].kind = "bool" /\ fields[3].val = TRUE /\ "B" \in DOMAIN Tok.res

\* C7: a record of string, bool and integer fields that Parse bound without
\* error, written back as one --name=value token per field and parsed again
\* into a fresh record, is bound without error to the same field values.
C7_RoundTrip ==
  (saved # NoRecord /\ Bound) => (ret.err = "nil" /\ fields = saved)

C7_Witness ==
  /\ saved # NoRecord /\ Bound /\ fields = saved
  /\ \E i \in 1..Len(fields) : fields[i].kind = "bool" /\ fields[i].val = TRUE
  /\ \E i \in 1..Len(fields) : fields[i].kind = "string" /\ fields[i].val = "a=b"
  /\ \E i \in 1..Len(fields) : fields[i].kind = "int8" /\ fields[i].val = SmallInt(2)

\* the positions in emits of the assignments to key k
EmitsOf(emits, k) == {j \in 1..Len(emits) : emits[j].key = k}

LastEmitOf(emits, k) == CHOOSE j \in EmitsOf(emits, k) : \A h \in EmitsOf(emits, k) : h <= j

\* C8: the flag map holds, for every flag name the tokenizer produced, the
\* value of that name's last occurrence in scan order, and holds no other name.
C8_LastOccurrenceWins ==
  LET t == Tok IN
  /\ DOMAIN t.res = {t.emits[j].key : j \in 1..Len(t.emits)}
  /\ \A k \in DOMAIN t.res : t.res[k] = t.emits[LastEmitOf(t.emits, k)].val
  /\ (osArgs = <<"--X=1", "--X=2">> /\ Bound /\ fields[1].name = "X" /\ fields[1].kind = "int8")
       => fields[1].val = SmallInt(2)

C8_Witness ==
  /\ Bound /\ ret.err = "nil"
  /\ \E j, h \in 1..Len(Tok.emits) :
       /\ j < h /\ Tok.emits[j].key = "B" /\ Tok.emits[h].key = "B"
       /\ Tok.emits[j].val = "True" /\ Tok.emits[h].val = ""
  /\ \E i \in 1..Len(fields) : fields[i].name = "B" /\ pre[i].val = TRUE /\ fields[i].val = FALSE

\* C9: for a destination that is not a non-nil pointer to a struct, Parse
\* returns the invalid-destination error of that destination and touches no
\* field, also when the arguments would make the tokenizer fault.
C9_InvalidDestination ==
  (ret.dest \in Dests \ {"pointerToStruct"}) =>
    /\ ret.err \in InvalidDestErrs
    /\ ret.err = checkDest(ret.dest)
    /\ ret.at = 0
    /\ fields = pre

C9_Witness ==
  ret.dest = "nilPointer" /\ ret.err = "s cannot be nil" /\ Tok.fault

\* the assignments made while the token at position i was processed
EmitsAt(emits, i) ==
  {<<emits[j].key, emits[j].val>> : j \in {h \in 1..Len(emits) : emits[h].at = i}}

\* C10: for a long flag without "=" that another token follows: if that token
\* starts with a dash, the flag is mapped to "" and the token is processed on
\* its own at the next iteration; otherwise the token is the flag's value and
\* is skipped, so that nothing is produced from it.
C10_Lookahead ==
  LET t == Tok
      visited == {t.visited[j] : j \in 1..Len(t.visited)}
  IN
  /\ \A i \in visited :
       (IsLongNoEq(osArgs[i]) /\ i < Len(osArgs)) =>
         IF HasPrefix(osArgs[i + 1], "-")
         THEN /\ EmitsAt(t.emits, i) = {<<TrimPrefix(osArgs[i], "--"), "">>}
              /\ i + 1 \in visited
         ELSE /\ EmitsAt(t.emits, i) = {<<TrimPrefix(osArgs[i], "--"), osArgs[i + 1]>>}
              /\ i + 1 \notin visited
              /\ EmitsAt(t.emits, i + 1) = {}
  /\ osArgs = <<"--B", "-5">> => t.res = [k \in {"B", "5"} |-> ""]

C10_Witness ==
  /\ Bound /\ ret.err = "nil"
  /\ osArgs = <<"--B", "--B", "True">>
  /\ \E i \in 1..Len(fields) : fields[i].name = "B" /\ pre[i].val = FALSE /\ fields[i].val = TRUE

====
